---- MODULE Spec2Model ----
(***************************************************************************)
(* scripts/merge-swagger.py: merge_swagger() folds the Swagger 2.0 files   *)
(* matched by a glob pattern into one base document, marks the public      *)
(* operations with an empty security list, writes the document and prints  *)
(* a summary.                                                              *)
(*                                                                         *)
(* JSON objects (Python dicts) are functions whose domain is the set of    *)
(* keys present; JSON arrays are sequences; a string that the program      *)
(* splits or trims is a sequence of one-character strings.  A file name is *)
(* represented by its rank in the lexicographic order of the names.        *)
(***************************************************************************)
EXTENDS Naturals, Sequences, FiniteSets, TLC

\* ------------------------------------------------------------------ bounds
\* the largest number of files the glob pattern matches
MaxFiles == 2
\* the longest "tags" list of an input file
MaxTags == 2
\* the longest --public-operations value, in characters
MaxLen == 2

\* ------------------------------------------------------------- dictionaries
EmptyDict == [k \in {} |-> k]

\* d[k] = v
Put(d, k, v) == [x \in DOMAIN d \cup {k} |-> IF x = k THEN v ELSE d[x]]

\* d.get(k, default)
Get(d, k, default) == IF k \in DOMAIN d THEN d[k] ELSE default

\* ------------------------------------------------------------------ strings
\* the characters str.strip() removes (of the alphabet used here)
Whitespace == {" "}

RECURSIVE Split(_)
\* s.split(","): the comma-free segments of s, in order; [""] for ""
Split(s) ==
    IF \A k \in 1..Len(s) : s[k] # ","
    THEN <<s>>
    ELSE LET c == CHOOSE k \in 1..Len(s) :
                      s[k] = "," /\ \A j \in 1..(k - 1) : s[j] # ","
         IN  <<SubSeq(s, 1, c - 1)>> \o Split(SubSeq(s, c + 1, Len(s)))

RECURSIVE LStrip(_)
LStrip(s) ==
    IF s # <<>> /\ Head(s) \in Whitespace THEN LStrip(Tail(s)) ELSE s

RECURSIVE RStrip(_)
RStrip(s) ==
    IF s # <<>> /\ s[Len(s)] \in Whitespace
    THEN RStrip(SubSeq(s, 1, Len(s) - 1))
    ELSE s

\* s.strip()
Strip(s) == RStrip(LStrip(s))

\* the tokens collected without .strip()
ParsePublicOpsUntrimmed(public_operations) ==
    IF public_operations # <<>>
    THEN {Split(public_operations)[k] : k \in 1..Len(Split(public_operations))}
    ELSE {}

\* the tokens collected without the test "if public_operations"
ParsePublicOpsUnguarded(public_operations) ==
    {Strip(Split(public_operations)[k]) : k \in 1..Len(Split(public_operations))}

\* {op.strip() for op in public_operations.split(",")}, or set() for ""
ParsePublicOps(public_operations) ==
    IF public_operations # <<>>
    THEN {Strip(Split(public_operations)[k]) :
              k \in 1..Len(Split(public_operations))}
    ELSE {}

\* ------------------------------------------------------------------ sorting
RECURSIVE Insert(_, _)
Insert(x, s) ==
    IF s = <<>> THEN <<x>>
    ELSE IF x <= Head(s) THEN <<x>> \o s
    ELSE <<Head(s)>> \o Insert(x, Tail(s))

RECURSIVE Sorted(_)
\* sorted(list)
Sorted(s) == IF s = <<>> THEN <<>> ELSE Insert(Head(s), Sorted(Tail(s)))

\* the orders in which the filesystem may enumerate the set S (glob.glob)
Enumerations(S) ==
    {e \in [1..Cardinality(S) -> S] : \A a, b \in DOMAIN e : a # b => e[a] # e[b]}

\* ------------------------------------------------------------ base document
BearerScheme ==
    [type |-> "apiKey", name |-> "Authorization", in |-> "header",
     description |-> "Enter your Bearer token in the format: Bearer <token>"]

BearerRequirement == [Bearer |-> <<>>]

\* the dict literal the function starts from
BaseDocument(title, description, host) ==
    [swagger |-> "2.0",
     info |-> [title |-> title, version |-> "1.0.0", description |-> description],
     host |-> host,
     basePath |-> "/",
     schemes |-> <<"http", "https">>,
     consumes |-> <<"application/json">>,
     produces |-> <<"application/json">>,
     securityDefinitions |-> [Bearer |-> BearerScheme],
     security |-> <<BearerRequirement>>,
     paths |-> EmptyDict,
     definitions |-> EmptyDict,
     tags |-> <<>>]

\* ------------------------------------------------------------------ merging
\* op_id = operation.get("operationId", ""); op_id in public_ops
IsPublic(operation, ops) == Get(operation, "operationId", <<>>) \in ops

\* the operation object after the loop body has run on it
MarkPublic(operation, ops) ==
    IF IsPublic(operation, ops) THEN Put(operation, "security", <<>>) ELSE operation

\* the method map of one file's path item, every operation marked
MarkPathItem(path_item, ops) ==
    [m \in DOMAIN path_item |-> MarkPublic(path_item[m], ops)]

\* base["paths"] after the loop over spec.get("paths", {}).items()
MergePathsInto(base_paths, spec_paths, ops) ==
    [p \in DOMAIN base_paths \cup DOMAIN spec_paths |->
        IF p \in DOMAIN spec_paths
        THEN LET old == Get(base_paths, p, EmptyDict)
                 new == MarkPathItem(spec_paths[p], ops)
             IN  [m \in DOMAIN old \cup DOMAIN new |->
                     IF m \in DOMAIN new THEN new[m] ELSE old[m]]
        ELSE base_paths[p]]

\* base["definitions"][name] = definition, whether or not name is present
MergeDefinitionsLastWins(base_defs, spec_defs) ==
    [n \in DOMAIN base_defs \cup DOMAIN spec_defs |->
        IF n \in DOMAIN spec_defs THEN spec_defs[n] ELSE base_defs[n]]

\* base["definitions"] after the loop over spec.get("definitions", {}).items()
MergeDefinitionsInto(base_defs, spec_defs) ==
    [n \in DOMAIN base_defs \cup DOMAIN spec_defs |->
        IF n \in DOMAIN base_defs THEN base_defs[n] ELSE spec_defs[n]]

\* ------------------------------------------------------------------ summary
CountedMethods == {"get", "post", "put", "delete", "patch"}

RECURSIVE SumOver(_, _)
\* sum(f[k] for k in S)
SumOver(S, f) ==
    IF S = {} THEN 0
    ELSE LET k == CHOOSE x \in S : TRUE IN f[k] + SumOver(S \ {k}, f)

PathCount(doc) == Cardinality(DOMAIN doc.paths)

\* the count without the test on the method key
OpCountAnyMethod(doc) ==
    SumOver(DOMAIN doc.paths,
            [p \in DOMAIN doc.paths |-> Cardinality(DOMAIN doc.paths[p])])

OpCount(doc) ==
    SumOver(DOMAIN doc.paths,
            [p \in DOMAIN doc.paths |->
                Cardinality({m \in DOMAIN doc.paths[p] : m \in CountedMethods})])

DefCount(doc) == Cardinality(DOMAIN doc.definitions)

TagCount(doc) == Len(doc.tags)

PublicCount(doc) ==
    SumOver(DOMAIN doc.paths,
            [p \in DOMAIN doc.paths |->
                Cardinality({m \in DOMAIN doc.paths[p] :
                    /\ "security" \in DOMAIN doc.paths[p][m]
                    /\ doc.paths[p][m]["security"] = <<>>})])

\* -------------------------------------------------------------------- state
VARIABLES
    disk,         \* the matched input files: name -> [valid, doc]
    args,         \* title, description, host, public_operations
    output,       \* the file at output_path: <<>> (none) or <<document>>
    output0,      \* the file at output_path before the run
    pc,           \* position in merge_swagger
    files,        \* sorted(glob.glob(input_pattern))
    base,         \* the document being built
    seen_tags,
    public_ops,
    i,            \* index in files of the file being folded
    spec,         \* json.load(f) of that file
    t,            \* index in spec's tags of the next tag
    stdout,
    stderr,
    exit_code     \* <<>> while running, <<status>> once the process ended

vars == <<disk, args, output, output0, pc, files, base, seen_tags, public_ops,
          i, spec, t, stdout, stderr, exit_code>>

\* files = glob.glob(input_pattern), in the order of enumeration
GlobUnsorted ==
    /\ pc = "glob"
    /\ \E e \in Enumerations(DOMAIN disk) : files' = e
    /\ pc' = "check"
    /\ UNCHANGED <<disk, args, output, output0, base, seen_tags, public_ops,
                   i, spec, t, stdout, stderr, exit_code>>

\* files = sorted(glob.glob(input_pattern))
Glob ==
    /\ pc = "glob"
    /\ \E e \in Enumerations(DOMAIN disk) : files' = Sorted(e)
    /\ pc' = "check"
    /\ UNCHANGED <<disk, args, output, output0, base, seen_tags, public_ops,
                   i, spec, t, stdout, stderr, exit_code>>

\* the diagnostic without sys.exit(1): the function goes on
NoFilesWarnOnly ==
    /\ pc = "check"
    /\ files = <<>>
    /\ stderr' = Append(stderr, [kind |-> "no files match pattern"])
    /\ base' = BaseDocument(args.title, args.description, args.host)
    /\ seen_tags' = {}
    /\ public_ops' = ParsePublicOps(args.public_operations)
    /\ i' = 1
    /\ pc' = "load"
    /\ UNCHANGED <<disk, args, output, output0, files, spec, t, stdout, exit_code>>

\* if not files: print(..., file=sys.stderr); sys.exit(1)
NoFiles ==
    /\ pc = "check"
    /\ files = <<>>
    /\ stderr' = Append(stderr, [kind |-> "no files match pattern"])
    /\ exit_code' = <<1>>
    /\ pc' = "exited"
    /\ UNCHANGED <<disk, args, output, output0, files, base, seen_tags,
                   public_ops, i, spec, t, stdout>>

\* base = {...}; seen_tags = set(); public_ops = ...
BuildBase ==
    /\ pc = "check"
    /\ files # <<>>
    /\ base' = BaseDocument(args.title, args.description, args.host)
    /\ seen_tags' = {}
    /\ public_ops' = ParsePublicOps(args.public_operations)
    /\ i' = 1
    /\ pc' = "load"
    /\ UNCHANGED <<disk, args, output, output0, files, spec, t, stdout, stderr,
                   exit_code>>

\* base.update() with the loaded file's other top-level keys
LoadFileUpdatesBase ==
    /\ pc = "load"
    /\ i <= Len(files)
    /\ disk[files[i]].valid
    /\ spec' = disk[files[i]].doc
    /\ base' = [k \in DOMAIN base \cup (DOMAIN spec' \ {"tags", "paths", "definitions"}) |->
                   IF k \in DOMAIN spec' \ {"tags", "paths", "definitions"}
                   THEN spec'[k] ELSE base[k]]
    /\ t' = 1
    /\ pc' = "tags"
    /\ UNCHANGED <<disk, args, output, output0, files, seen_tags,
                   public_ops, i, stdout, stderr, exit_code>>

\* with open(filepath) as f: spec = json.load(f)
LoadFile ==
    /\ pc = "load"
    /\ i <= Len(files)
    /\ disk[files[i]].valid
    /\ spec' = disk[files[i]].doc
    /\ t' = 1
    /\ pc' = "tags"
    /\ UNCHANGED <<disk, args, output, output0, files, base, seen_tags,
                   public_ops, i, stdout, stderr, exit_code>>

\* json.load raises JSONDecodeError: nothing catches it, the interpreter
\* prints the traceback and ends with status 1
LoadFails ==
    /\ pc = "load"
    /\ i <= Len(files)
    /\ ~disk[files[i]].valid
    /\ stderr' = Append(stderr, [kind |-> "Traceback: JSONDecodeError"])
    /\ exit_code' = <<1>>
    /\ pc' = "raised"
    /\ UNCHANGED <<disk, args, output, output0, files, base, seen_tags,
                   public_ops, i, spec, t, stdout>>

\* the tag compared with the tags already added, not its name with seen_tags
MergeTagByObject ==
    /\ pc = "tags"
    /\ t <= Len(Get(spec, "tags", <<>>))
    /\ LET tag == spec["tags"][t] IN
         IF \A j \in 1..Len(base.tags) : base.tags[j] # tag
         THEN /\ seen_tags' = seen_tags \cup {tag.name}
              /\ base' = [base EXCEPT !.tags = Append(@, tag)]
         ELSE UNCHANGED <<seen_tags, base>>
    /\ t' = t + 1
    /\ UNCHANGED <<disk, args, output, output0, pc, files, public_ops, i, spec,
                   stdout, stderr, exit_code>>

\* one iteration of: for tag in spec.get("tags", [])
MergeTag ==
    /\ pc = "tags"
    /\ t <= Len(Get(spec, "tags", <<>>))
    /\ LET tag == spec["tags"][t] IN
         IF tag.name \notin seen_tags
         THEN /\ seen_tags' = seen_tags \cup {tag.name}
              /\ base' = [base EXCEPT !.tags = Append(@, tag)]
         ELSE UNCHANGED <<seen_tags, base>>
    /\ t' = t + 1
    /\ UNCHANGED <<disk, args, output, output0, pc, files, public_ops, i, spec,
                   stdout, stderr, exit_code>>

\* for path, path_item in spec.get("paths", {}).items(): ...
MergePaths ==
    /\ pc = "tags"
    /\ t > Len(Get(spec, "tags", <<>>))
    /\ base' = [base EXCEPT !.paths =
                    MergePathsInto(@, Get(spec, "paths", EmptyDict), public_ops)]
    /\ spec' = IF "paths" \in DOMAIN spec
               THEN Put(spec, "paths",
                        [p \in DOMAIN spec["paths"] |->
                            MarkPathItem(spec["paths"][p], public_ops)])
               ELSE spec
    /\ pc' = "definitions"
    /\ UNCHANGED <<disk, args, output, output0, files, seen_tags, public_ops,
                   i, t, stdout, stderr, exit_code>>

\* the write indented into the loop over the files
MergeDefinitionsAndWrite ==
    /\ pc = "definitions"
    /\ base' = [base EXCEPT !.definitions =
                    MergeDefinitionsInto(@, Get(spec, "definitions", EmptyDict))]
    /\ output' = <<base'>>
    /\ i' = i + 1
    /\ pc' = "load"
    /\ UNCHANGED <<disk, args, output0, files, seen_tags, public_ops,
                   spec, t, stdout, stderr, exit_code>>

\* for name, definition in spec.get("definitions", {}).items(): ...
MergeDefinitions ==
    /\ pc = "definitions"
    /\ base' = [base EXCEPT !.definitions =
                    MergeDefinitionsInto(@, Get(spec, "definitions", EmptyDict))]
    /\ i' = i + 1
    /\ pc' = "load"
    /\ UNCHANGED <<disk, args, output, output0, files, seen_tags, public_ops,
                   spec, t, stdout, stderr, exit_code>>

\* with open(output_path, "w") as f: json.dump(base, f, indent=2)
WriteOutput ==
    /\ pc = "load"
    /\ i > Len(files)
    /\ output' = <<base>>
    /\ pc' = "report"
    /\ UNCHANGED <<disk, args, output0, files, base, seen_tags, public_ops, i,
                   spec, t, stdout, stderr, exit_code>>

\* the counts and the three print calls; the function returns
Report ==
    /\ pc = "report"
    /\ stdout' =
         stdout
         \o <<[kind |-> "Merged", paths |-> PathCount(base), operations |-> OpCount(base),
               definitions |-> DefCount(base), tags |-> TagCount(base)]>>
         \o (IF public_ops # {}
             THEN <<[kind |-> "Public operations (no auth)", count |-> PublicCount(base)]>>
             ELSE <<>>)
         \o <<[kind |-> "Output"]>>
    /\ exit_code' = <<0>>
    /\ pc' = "done"
    /\ UNCHANGED <<disk, args, output, output0, files, base, seen_tags,
                   public_ops, i, spec, t, stderr>>

Next ==
    \/ Glob
    \/ NoFiles
    \/ BuildBase
    \/ LoadFile
    \/ LoadFails
    \/ MergeTag
    \/ MergePaths
    \/ MergeDefinitions
    \/ WriteOutput
    \/ Report

\* ------------------------------------------------------------------- inputs
\* an optional key: <<>> (absent) or <<value>>
Opt(S) == {<<>>} \cup {<<v>> : v \in S}

Field(k, opt) == IF opt = <<>> THEN EmptyDict ELSE (k :> opt[1])

\* every dict whose keys are among Keys and whose values are in Vals
Dicts(Keys, Vals) == UNION {[K -> Vals] : K \in SUBSET Keys}

\* every string of at most n characters of Alphabet
Strings(Alphabet, n) == UNION {[1..k -> Alphabet] : k \in 0..n}

Auth1 == [name |-> "Auth", description |-> "first"]
Auth2 == [name |-> "Auth", description |-> "second"]
User1 == [name |-> "User", description |-> "first"]

TagObjects == {Auth1, Auth2, User1}

TagLists == UNION {[1..k -> TagObjects] : k \in 0..MaxTags}

OperationIds == {<<>>, <<"a">>, <<" ", "a">>}

Securities == {<<>>, <<BearerRequirement>>}

\* operation objects: operationId and security each present or not
Operations ==
    {Field("operationId", a) @@ Field("security", s) :
        a \in Opt(OperationIds), s \in Opt(Securities)}

OpLogin == [operationId |-> <<"a">>, security |-> <<BearerRequirement>>]
OpAnon == [summary |-> "no operationId"]
OpOpen == [operationId |-> <<"b">>, security |-> <<>>]

ObjectSchema == [type |-> "object"]
StringSchema == [type |-> "string"]

\* top-level keys of an input other than tags, paths and definitions
ForeignMeta ==
    [swagger |-> "3.0",
     info |-> [title |-> "fragment", version |-> "0.1"],
     host |-> "fragment.example",
     basePath |-> "/v1",
     schemes |-> <<"ws">>,
     securityDefinitions |-> [Basic |-> [type |-> "basic"]],
     security |-> <<>>]

Document(tags, paths, definitions, rest) ==
    Field("tags", tags) @@ Field("paths", paths)
        @@ Field("definitions", definitions) @@ rest

ValidFile(doc) == [valid |-> TRUE, doc |-> doc]

\* a file that is not valid JSON
Malformed == [valid |-> FALSE, doc |-> EmptyDict]

\* a document some earlier run left at output_path
StaleOutput == [swagger |-> "2.0", info |-> [title |-> "stale"]]

Outputs == {<<>>, <<StaleOutput>>}

PlainArgs(public_operations) ==
    [title |-> "IAM Service API", description |-> "", host |-> "localhost:8080",
     public_operations |-> public_operations]

SampleTags == <<Auth1, User1>>
SamplePaths == ("/login" :> ("post" :> OpLogin @@ "options" :> OpOpen))
SampleDefinitions == ("User" :> ObjectSchema)

InitWith(Files, Args, Outs, n) ==
    /\ disk \in UNION {[1..k -> Files] : k \in 0..n}
    /\ args \in Args
    /\ output0 \in Outs
    /\ output = output0
    /\ pc = "glob"
    /\ files = <<>>
    /\ base = EmptyDict
    /\ seen_tags = {}
    /\ public_ops = {}
    /\ i = 0
    /\ spec = EmptyDict
    /\ t = 0
    /\ stdout = <<>>
    /\ stderr = <<>>
    /\ exit_code = <<>>

\* inputs carrying their own top-level metadata, every argument varied
MetaFiles ==
    {ValidFile(Document(<<SampleTags>>, <<SamplePaths>>, <<SampleDefinitions>>, rest)) :
        rest \in {EmptyDict, ForeignMeta}}
    \cup {ValidFile(EmptyDict), Malformed}

MetaArgs ==
    [title : {"IAM Service API"}, description : {"", "Identity"},
     host : {"localhost:8080", "localhost:8081"},
     public_operations : {<<>>, <<"a">>}]

Init == InitWith(MetaFiles, MetaArgs, Outputs, MaxFiles)

Spec == Init /\ [][Next]_vars

\* inputs whose tags lists vary
TagFiles ==
    {ValidFile(Document(tags, <<SamplePaths>>, <<SampleDefinitions>>, EmptyDict)) :
        tags \in Opt(TagLists)}
    \cup {Malformed}

InitTags == InitWith(TagFiles, {PlainArgs(<<>>)}, {<<>>}, MaxFiles)

SpecTags == InitTags /\ [][Next]_vars

\* inputs whose definitions vary
DefinitionFiles ==
    {ValidFile(Document(<<SampleTags>>, <<SamplePaths>>, definitions, EmptyDict)) :
        definitions \in Opt(Dicts({"User", "Error"}, {ObjectSchema, StringSchema}))}
    \cup {Malformed}

InitDefinitions == InitWith(DefinitionFiles, {PlainArgs(<<>>)}, {<<>>}, MaxFiles)

SpecDefinitions == InitDefinitions /\ [][Next]_vars

\* inputs whose paths vary: every method map of /login, with or without /users
PathFiles ==
    {ValidFile(Document(<<SampleTags>>, <<login @@ users>>, <<SampleDefinitions>>, EmptyDict)) :
        login \in Dicts({"/login"}, Dicts({"post", "options"}, {OpLogin, OpAnon, OpOpen})),
        users \in Dicts({"/users"}, {("get" :> OpOpen)})}
    \cup {ValidFile(Document(<<SampleTags>>, <<>>, <<SampleDefinitions>>, EmptyDict)),
          Malformed}

PathArgs == {PlainArgs(<<>>), PlainArgs(<<"a">>)}

InitPaths == InitWith(PathFiles, PathArgs, {<<>>}, MaxFiles)

SpecPaths == InitPaths /\ [][Next]_vars

\* every --public-operations value over every operation object
PublicFiles ==
    {ValidFile(Document(<<>>, <<("/login" :> ("post" :> op))>>, <<>>, EmptyDict)) :
        op \in Operations}
    \cup {ValidFile(Document(<<SampleTags>>, <<>>, <<SampleDefinitions>>, EmptyDict)),
          Malformed}

PublicArgs == {PlainArgs(s) : s \in Strings({"a", ",", " "}, MaxLen)}

InitPublic == InitWith(PublicFiles, PublicArgs, {<<>>}, MaxFiles)

SpecPublic == InitPublic /\ [][Next]_vars

\* at most one input, varied in tags, paths and definitions together
SingleFiles ==
    {ValidFile(Document(tags, paths, definitions, EmptyDict)) :
        tags \in Opt(TagLists),
        paths \in Opt(Dicts({"/login"}, Dicts({"post", "options"}, {OpLogin, OpAnon, OpOpen}))),
        definitions \in Opt(Dicts({"User"}, {ObjectSchema, StringSchema}))}
    \cup {Malformed}

InitSingle == InitWith(SingleFiles, PathArgs, {<<>>}, 1)

SpecSingle == InitSingle /\ [][Next]_vars

\* ---------------------------------------------------------------- properties
\* the inputs as the files on disk give them, by file name
InTags(k) == Get(disk[k].doc, "tags", <<>>)

InPaths(k) == Get(disk[k].doc, "paths", EmptyDict)

InDefinitions(k) == Get(disk[k].doc, "definitions", EmptyDict)

\* the document in the output file
Written == output[1]

Completed == pc = "done"

\* seg is s between two consecutive commas (or an end of s)
IsToken(s, lo, hi) ==
    /\ \A k \in lo..hi : s[k] # ","
    /\ lo = 1 \/ s[lo - 1] = ","
    /\ hi = Len(s) \/ s[hi + 1] = ","

\* id is seg without the blanks at its two ends
IsTrimOf(id, seg) ==
    \E lo \in 1..(Len(seg) + 1) : \E hi \in (lo - 1)..Len(seg) :
        /\ id = SubSeq(seg, lo, hi)
        /\ \A k \in (1..(lo - 1)) \cup ((hi + 1)..Len(seg)) : seg[k] = " "
        /\ id = <<>> \/ (id[1] # " " /\ id[Len(id)] # " ")

\* id is one of the comma-separated, trimmed tokens of the value s
Listed(id, s) ==
    /\ s # <<>>
    /\ \E lo \in 1..(Len(s) + 1) : \E hi \in (lo - 1)..Len(s) :
          IsToken(s, lo, hi) /\ IsTrimOf(id, SubSeq(s, lo, hi))

\* the files, by name, that define method m under path p
Defining(p, m) ==
    {k \in DOMAIN disk : p \in DOMAIN InPaths(k) /\ m \in DOMAIN InPaths(k)[p]}

Last(S) == CHOOSE k \in S : \A j \in S : j <= k

First(S) == CHOOSE k \in S : \A j \in S : k <= j

\* the operation the last defining file gives for (p, m)
SourceOperation(p, m) == InPaths(Last(Defining(p, m)))[p][m]

\* the (path, method) entries of a document
Entries(doc) ==
    UNION {{<<p, m>> : m \in DOMAIN doc.paths[p]} : p \in DOMAIN doc.paths}

HasEmptySecurity(op) == "security" \in DOMAIN op /\ op["security"] = <<>>

\* C1: once merge_swagger has completed, every operation of the output whose
\* operationId is one of the comma-separated, trimmed tokens of
\* --public-operations has security equal to the empty sequence.
C1_PublicOperationsHaveEmptySecurity ==
    Completed =>
        \A e \in Entries(Written) :
            LET op == Written.paths[e[1]][e[2]] IN
            ("operationId" \in DOMAIN op /\ Listed(op["operationId"], args.public_operations))
                => HasEmptySecurity(op)

\* a listed operation that the second of two files supplied with a Bearer
\* requirement, over the first file's operation, and that a blank before the
\* id in the option value did not hide
C1_Witness ==
    /\ Completed
    /\ Cardinality(DOMAIN disk) = 2
    /\ args.public_operations = <<" ", "a">>
    /\ Defining("/login", "post") = {1, 2}
    /\ SourceOperation("/login", "post") =
           [operationId |-> <<"a">>, security |-> <<BearerRequirement>>]
    /\ Written.paths["/login"]["post"] = [operationId |-> <<"a">>, security |-> <<>>]

\* C10: once merge_swagger has completed, an operation of the output whose
\* operationId is not a listed id, or which has no operationId, has the
\* security field its source file gave it (absent stays absent), and with an
\* empty --public-operations value no operation differs from its source.
C10_UnlistedOperationsKeepSecurity ==
    Completed =>
        \A e \in Entries(Written) :
            LET op == Written.paths[e[1]][e[2]]
                src == SourceOperation(e[1], e[2])
            IN  /\ ("operationId" \notin DOMAIN op
                        \/ ~Listed(op["operationId"], args.public_operations))
                     => op = src
                /\ args.public_operations = <<>> => op = src

\* C2 as stated: the output has an entry for (path, method) exactly when some
\* input defines it, and the entry equals the operation of the last input
\* file, in sorted file name order, that defines it.
C2_EntryEqualsLastFileOperation ==
    Completed =>
        \A p \in DOMAIN Written.paths \cup UNION {DOMAIN InPaths(k) : k \in DOMAIN disk} :
            \A m \in {"get", "post", "options"} :
                /\ (p \in DOMAIN Written.paths /\ m \in DOMAIN Written.paths[p])
                       <=> Defining(p, m) # {}
                /\ Defining(p, m) # {} => Written.paths[p][m] = SourceOperation(p, m)

\* the operation as the security override leaves it: security is the empty
\* sequence when the operationId, or the empty string for an operation that
\* has none, is a listed id
Overridden(op) ==
    IF Listed(Get(op, "operationId", <<>>), args.public_operations)
    THEN [k \in DOMAIN op \cup {"security"} |-> IF k = "security" THEN <<>> ELSE op[k]]
    ELSE op

\* C2 (amended): the output has an entry for (path, method) exactly when some
\* input defines it; the entry is the operation of the last input file, in
\* sorted file name order, that defines it, with its security replaced by the
\* empty sequence where the public-operations override applied to it; every
\* path of an input is a path of the output.
C2_EntryIsLastFileOperationAfterOverride ==
    Completed =>
        /\ DOMAIN Written.paths = UNION {DOMAIN InPaths(k) : k \in DOMAIN disk}
        /\ \A p \in DOMAIN Written.paths :
               \A m \in {"get", "post", "options"} :
                   /\ m \in DOMAIN Written.paths[p] <=> Defining(p, m) # {}
                   /\ Defining(p, m) # {}
                          => Written.paths[p][m] = Overridden(SourceOperation(p, m))

\* two files define post under /login with different operations, only the
\* first defines options there, and the output holds the second file's post
\* beside the first file's options
C2_Witness ==
    /\ Completed
    /\ Defining("/login", "post") = {1, 2}
    /\ Defining("/login", "options") = {1}
    /\ InPaths(1)["/login"]["post"] # InPaths(2)["/login"]["post"]
    /\ Written.paths["/login"]["post"] = InPaths(2)["/login"]["post"]
    /\ Written.paths["/login"]["options"] = InPaths(1)["/login"]["options"]
    /\ "/users" \in DOMAIN Written.paths

\* the files, by name, that define the definition name n
DefiningName(n) == {k \in DOMAIN disk : n \in DOMAIN InDefinitions(k)}

\* the base document exists from BuildBase on
BaseBuilt == pc \in {"load", "tags", "definitions", "report", "done", "raised"}

\* C3: at every point of the fold a stored definition is the one of the first
\* input file, in sorted file name order, that defines its name, so no later
\* file changes it; and the output has a definition for a name exactly when
\* some input defines the name.
C3_FirstDefinitionWins ==
    /\ BaseBuilt =>
           \A n \in DOMAIN base.definitions :
               /\ DefiningName(n) # {}
               /\ base.definitions[n] = InDefinitions(First(DefiningName(n)))[n]
    /\ Completed =>
           /\ DOMAIN Written.definitions = UNION {DOMAIN InDefinitions(k) : k \in DOMAIN disk}
           /\ \A n \in DOMAIN Written.definitions :
                  Written.definitions[n] = InDefinitions(First(DefiningName(n)))[n]

\* both files define User, differently, only the second defines Error, and
\* the output holds the first file's User and the second file's Error
C3_Witness ==
    /\ Completed
    /\ DefiningName("User") = {1, 2}
    /\ DefiningName("Error") = {2}
    /\ InDefinitions(1)["User"] # InDefinitions(2)["User"]
    /\ Written.definitions["User"] = InDefinitions(1)["User"]
    /\ Written.definitions["Error"] = InDefinitions(2)["Error"]

RECURSIVE TagsOfFirst(_)
\* the tags lists of the files named 1..k, one after the other
TagsOfFirst(k) == IF k = 0 THEN <<>> ELSE TagsOfFirst(k - 1) \o InTags(k)

\* the positions of s that hold the first tag of their name
FirstPositions(s) ==
    {j \in 1..Len(s) : \A h \in 1..(j - 1) : s[h].name # s[j].name}

\* the tags of s at those positions, in order
FirstOccurrences(s) ==
    [r \in 1..Cardinality(FirstPositions(s)) |->
        s[CHOOSE j \in FirstPositions(s) :
              Cardinality({h \in FirstPositions(s) : h <= j}) = r]]

NoRepeatedName(s) == \A a, b \in 1..Len(s) : a # b => s[a].name # s[b].name

\* C4: at every point of the fold no two tags of the base document have the
\* same name; the output's tags are, for each tag name some input declares,
\* the first tag of that name in processing order (files in sorted order,
\* positions within a file in order), in order of first appearance.
C4_TagsUniqueFirstOccurrence ==
    /\ BaseBuilt =>
           /\ NoRepeatedName(base.tags)
           /\ seen_tags = {base.tags[j].name : j \in 1..Len(base.tags)}
    /\ Completed =>
           Written.tags = FirstOccurrences(TagsOfFirst(Cardinality(DOMAIN disk)))

\* the first file repeats Auth within its own list and declares User, the
\* second declares Auth again with another description: one Auth, the first
C4_Witness ==
    /\ Completed
    /\ Cardinality(DOMAIN disk) = 2
    /\ InTags(1) = <<Auth2, Auth1>>
    /\ InTags(2) = <<User1, Auth1>>
    /\ Written.tags = <<Auth2, User1>>

SomeInputMalformed == \E k \in DOMAIN disk : ~disk[k].valid

\* C5: the output file is written only once every input file has been parsed
\* and folded; when some input file is not valid JSON the output path stays
\* as it was before the run at every point, no summary is printed, and the
\* run ends with an error.
C5_NoOutputUnlessAllInputsParse ==
    /\ output # output0 =>
           /\ pc \in {"report", "done"}
           /\ i > Len(files)
           /\ \A k \in DOMAIN disk : disk[k].valid
    /\ SomeInputMalformed =>
           /\ output = output0
           /\ stdout = <<>>
           /\ pc \notin {"report", "done"}
    /\ pc = "raised" => SomeInputMalformed /\ exit_code = <<1>>

\* the second file is malformed, the first was folded into the base
\* document, and the earlier output is still in place
C5_Witness ==
    /\ pc = "raised"
    /\ i = 2
    /\ base.paths # EmptyDict
    /\ output0 = <<StaleOutput>>
    /\ output = <<StaleOutput>>

NoFilesDiagnostic == [kind |-> "no files match pattern"]

\* C6: when the pattern matches no file the run ends with a non-zero status,
\* the diagnostic on the error stream, the output path as it was and nothing
\* on standard output; the diagnostic and that exit occur only then.
C6_NoMatchExitsWithoutOutput ==
    /\ (DOMAIN disk = {} /\ pc \notin {"glob", "check"}) =>
           /\ pc = "exited"
           /\ exit_code = <<1>>
           /\ stderr = <<NoFilesDiagnostic>>
           /\ output = output0
           /\ stdout = <<>>
    /\ (pc = "exited" \/ \E k \in 1..Len(stderr) : stderr[k] = NoFilesDiagnostic)
           => DOMAIN disk = {}
    /\ DOMAIN disk # {} => pc # "exited"

\* no file matched, an earlier output exists, and the run has exited
C6_Witness ==
    /\ pc = "exited"
    /\ DOMAIN disk = {}
    /\ output0 = <<StaleOutput>>
    /\ output = <<StaleOutput>>
    /\ exit_code = <<1>>

\* the top-level keys the fold must leave alone
MetadataKeys ==
    {"swagger", "info", "host", "basePath", "schemes", "consumes", "produces",
     "securityDefinitions", "security"}

\* C8: from its construction on, and in the output, the document's top-level
\* metadata is what the arguments fix: swagger "2.0", info {title, version
\* "1.0.0", description}, the given host, basePath "/", the single Bearer
\* apiKey scheme in the Authorization header, security [{Bearer: []}]; its
\* top-level keys are these, schemes, consumes, produces, paths, definitions
\* and tags, whatever the inputs carry.
C8_MetadataFixedByArguments ==
    LET fixed(doc) ==
            /\ DOMAIN doc = MetadataKeys \cup {"paths", "definitions", "tags"}
            /\ doc.swagger = "2.0"
            /\ doc.info = [title |-> args.title, version |-> "1.0.0",
                           description |-> args.description]
            /\ doc.host = args.host
            /\ doc.basePath = "/"
            /\ doc.schemes = <<"http", "https">>
            /\ doc.consumes = <<"application/json">>
            /\ doc.produces = <<"application/json">>
            /\ DOMAIN doc.securityDefinitions = {"Bearer"}
            /\ doc.securityDefinitions["Bearer"].type = "apiKey"
            /\ doc.securityDefinitions["Bearer"].name = "Authorization"
            /\ doc.securityDefinitions["Bearer"]["in"] = "header"
            /\ doc.security = <<[Bearer |-> <<>>]>>
    IN  /\ BaseBuilt => fixed(base)
        /\ Completed => fixed(Written)

\* two inputs that carry their own host, info and security were folded and
\* the run was given a host and a description other than the defaults
C8_Witness ==
    /\ Completed
    /\ Cardinality(DOMAIN disk) = 2
    /\ \A k \in DOMAIN disk :
           /\ "host" \in DOMAIN disk[k].doc
           /\ disk[k].doc["host"] = "fragment.example"
           /\ disk[k].doc["security"] = <<>>
    /\ args.host = "localhost:8081"
    /\ args.description = "Identity"
    /\ Written.paths # EmptyDict
    /\ Written.host = "localhost:8081"

\* C9: the summary agrees with the written document: paths is the number of
\* its paths, operations the number of (path, method) entries whose method is
\* get, post, put, delete or patch, definitions and tags the sizes of its
\* definitions and tags; the public-operations line is printed exactly when
\* the --public-operations value is not empty, and then counts the entries,
\* under any method, whose security is the empty sequence.
C9_SummaryAgreesWithOutput ==
    Completed =>
        LET merged == stdout[1]
            public == {k \in 1..Len(stdout) : stdout[k].kind = "Public operations (no auth)"}
        IN  /\ merged.kind = "Merged"
            /\ merged.paths = Cardinality(DOMAIN Written.paths)
            /\ merged.operations =
                   Cardinality({e \in Entries(Written) :
                       e[2] \in {"get", "post", "put", "delete", "patch"}})
            /\ merged.definitions = Cardinality(DOMAIN Written.definitions)
            /\ merged.tags = Len(Written.tags)
            /\ public # {} <=> args.public_operations # <<>>
            /\ \A k \in public :
                   /\ k = 2
                   /\ stdout[k].count =
                          Cardinality({e \in Entries(Written) :
                              HasEmptySecurity(Written.paths[e[1]][e[2]])})
            /\ stdout[Len(stdout)].kind = "Output"

\* an options entry that is not counted as an operation, and a public count
\* of three: one operation made public by the option, two that their files
\* gave an empty security, one of them under options
C9_Witness ==
    /\ Completed
    /\ Len(stdout) = 3
    /\ stdout[1] = [kind |-> "Merged", paths |-> 2, operations |-> 2,
                    definitions |-> 1, tags |-> 2]
    /\ stdout[2].count = 3
    /\ Written.paths["/login"] = ("post" :> [operationId |-> <<"a">>, security |-> <<>>]
                                    @@ "options" :> OpOpen)
    /\ Written.paths["/users"] = ("get" :> OpOpen)

\* C7 as stated: merging exactly one input file with an empty
\* --public-operations value gives an output whose paths, definitions and
\* tags equal that file's.
C7_SingleFileReproduced ==
    (Completed /\ DOMAIN disk = {1} /\ args.public_operations = <<>>) =>
        /\ Written.paths = InPaths(1)
        /\ Written.definitions = InDefinitions(1)
        /\ Written.tags = InTags(1)

\* C7 (amended): merging exactly one input file with an empty
\* --public-operations value gives an output whose paths and definitions
\* equal that file's, every operation with the security field its file gave
\* it or none, and whose tags are that file's tags without the later tags of
\* a name the list repeats: the file's tags list itself when it repeats none.
C7_SingleFileReproducedUpToRepeatedTags ==
    (Completed /\ DOMAIN disk = {1} /\ args.public_operations = <<>>) =>
        /\ Written.paths = InPaths(1)
        /\ Written.definitions = InDefinitions(1)
        /\ Written.tags = FirstOccurrences(InTags(1))
        /\ NoRepeatedName(InTags(1)) => Written.tags = InTags(1)

\* one file whose tags list repeats Auth, with an operation that has no
\* operationId, one with a Bearer requirement and a definition
C7_Witness ==
    /\ Completed
    /\ DOMAIN disk = {1}
    /\ args.public_operations = <<>>
    /\ InTags(1) = <<Auth1, Auth2>>
    /\ Written.tags = <<Auth1>>
    /\ InPaths(1) = ("/login" :> ("post" :> OpLogin @@ "options" :> OpAnon))
    /\ Written.paths = InPaths(1)
    /\ Written.definitions = ("User" :> StringSchema)

====
